---- MODULE Spec2Model ----
(***************************************************************************)
(* Model of the study-assistant-lab scripts: the three clients that post a *)
(* question on a thread, start a run, poll it and read the reply           *)
(*   scripts/01_qna_assistant.py  (interactive_qa, test_assistant,         *)
(*                                 run_assistant, format_message_content)  *)
(*   scripts/ask_question.py      (ask_question)                           *)
(*   tests/test_notes_schema.py   (module-level script)                    *)
(* together with the remote service they call (threads, messages, runs).   *)
(***************************************************************************)
EXTENDS Naturals, Integers, Sequences, FiniteSets, TLC

VARIABLES
    prog,       \* prog[p]: the entry point process p runs ("none": not started)
    pc,         \* pc[p]: the position of process p in its script
    qn,         \* qn[p]: number of questions process p has taken so far
    run,        \* run[p]: status of the client's local run / run_status object
    lastErr,    \* lastErr[p]: last_error of the client's local run object
    result,     \* result[p]: the value run_assistant returned (qna only)
    out,        \* out[p]: what the client printed for the current question
    calls,      \* calls[p]: remote calls and sleeps issued for the current question
    thread,     \* thread[p]: the messages of p's thread, oldest first (remote)
    remote,     \* remote[p]: status of the latest run on p's thread (remote)
    remoteErr,  \* remoteErr[p]: last_error of that run (remote)
    listOrder,  \* order in which the service's messages.list returns a thread
    message,    \* the message handed to format_message_content
    formatted,  \* what format_message_content returned for it
    fpc         \* position of the formatting run: "ready" | "formatted" | "off"

vars == <<prog, pc, qn, run, lastErr, result, out, calls, thread, remote,
          remoteErr, listOrder, message, formatted, fpc>>

flowVars == <<prog, pc, qn, run, lastErr, result, out, calls, thread, remote,
              remoteErr, listOrder>>
fmtVars == <<message, formatted, fpc>>

(***************************************************************************)
(* Bounds of the model                                                     *)
(***************************************************************************)
\* questions typed into one interactive_qa session
MaxQuestions == 2
\* status fetches of one run before the model stops following the loop
MaxFetch == 3
\* assistant messages one run may append to its thread
MaxReplies == 2
\* size of a message handed to format_message_content
\* (content blocks + annotations + characters of text)
MaxSize == 6

\* the argument of time.sleep in the polling loops
SleepSeconds == 1

\* len(test_questions) in test_assistant
NumTestQuestions == 3

Procs == {1, 2}

Programs == {"interactive_qa", "test_assistant", "ask_question", "test_notes_schema"}
QnaPrograms == {"interactive_qa", "test_assistant"}

(***************************************************************************)
(* Run statuses                                                            *)
(***************************************************************************)
NonTerminal == {"queued", "in_progress", "cancelling"}
Terminal == {"completed", "failed", "cancelled", "expired"}
Status == NonTerminal \cup Terminal
Errors == {"rate_limited", "server_error"}

\* Transitions of a run on the service.
ServiceNextStatus(s) ==
    CASE s = "queued" -> {"in_progress", "cancelling"}
      [] s = "in_progress" -> {"cancelling", "completed", "failed", "expired"}
      [] s = "cancelling" -> {"cancelled"}
      [] OTHER -> {}

(***************************************************************************)
(* Values                                                                  *)
(***************************************************************************)
\* Python's None where a message is expected
NoMessage == [role |-> "none", id |-> 0, q |-> 0]

UserMessage(p) == [role |-> "user", id |-> Len(thread[p]) + 1, q |-> qn[p]]

RECURSIVE Replies(_, _, _)
Replies(first, n, q) ==
    IF n = 0 THEN <<>>
    ELSE <<[role |-> "assistant", id |-> first, q |-> q]>> \o Replies(first + 1, n - 1, q)

RECURSIVE Reverse(_)
Reverse(s) == IF s = <<>> THEN <<>> ELSE Reverse(Tail(s)) \o <<Head(s)>>

\* the listing asked for with a thread id shared by every call: the first thread
ListMessagesOfSharedThread(p) == IF listOrder = "asc" THEN thread[1] ELSE Reverse(thread[1])

\* client.beta.threads.messages.list(thread_id): the service's listing of a thread
ListMessages(p) == IF listOrder = "asc" THEN thread[p] ELSE Reverse(thread[p])

Call(op, ok, status) == [op |-> op, ok |-> ok, status |-> status]

Printed(kind, detail, id) == [kind |-> kind, detail |-> detail, id |-> id]

\* a local variable that has not been assigned yet
Unset == [role |-> "unset", id |-> 0, q |-> 0]

Log(p, c) == [calls EXCEPT ![p] = Append(@, c)]

\* calls of one kind issued for the current question
CallsOf(p, op) == {i \in 1..Len(calls[p]) : calls[p][i].op = op}

\* statuses the client has read off a run object, in order: the run returned by
\* runs.create and by every runs.retrieve
Observations(p) ==
    {i \in 1..Len(calls[p]) : calls[p][i].op \in {"createRun", "getRun"} /\ calls[p][i].ok}

(***************************************************************************)
(* The remote service                                                      *)
(***************************************************************************)
\* a run moves to its next status, other than completed
ServiceAdvance(p) ==
    /\ remote[p] \in NonTerminal
    /\ \E s \in ServiceNextStatus(remote[p]) \ {"completed"} :
        /\ remote' = [remote EXCEPT ![p] = s]
        /\ \E e \in Errors :
            remoteErr' = [remoteErr EXCEPT ![p] = IF s = "failed" THEN e ELSE "none"]
    /\ UNCHANGED <<prog, pc, qn, run, lastErr, result, out, calls, thread, listOrder>>
    /\ UNCHANGED fmtVars

\* a run completes, having appended its assistant messages to the thread
ServiceComplete(p) ==
    /\ remote[p] = "in_progress"
    /\ \E n \in 0..MaxReplies :
        thread' = [thread EXCEPT ![p] = @ \o Replies(Len(@) + 1, n, qn[p])]
    /\ remote' = [remote EXCEPT ![p] = "completed"]
    /\ UNCHANGED <<prog, pc, qn, run, lastErr, result, out, calls, remoteErr, listOrder>>
    /\ UNCHANGED fmtVars

(***************************************************************************)
(* scripts/01_qna_assistant.py                                             *)
(***************************************************************************)
\* the loop test with 'cancelling' left out
RunAssistantPollsNoCancelling(status) == status \in {"queued", "in_progress"}

\* while run.status in ['queued', 'in_progress', 'cancelling']
RunAssistantPolls(status) == status \in {"queued", "in_progress", "cancelling"}

\* for message in messages: if message.role == "assistant": return message
RECURSIVE FirstAssistant(_)
FirstAssistant(messages) ==
    IF messages = <<>> THEN NoMessage
    ELSE IF Head(messages).role = "assistant" THEN Head(messages)
    ELSE FirstAssistant(Tail(messages))

\* the handler sending a failed question back into its try block for another go
QnaRaiseRetry(p) == "post"

\* where an exception raised inside the try block of the question loop lands
QnaRaise(p) == "except"

\* a failure of add_message swallowed: the question goes on to run_assistant
PostFailedSwallowed(p) == "create"

\* where a failure of add_message inside the try block lands
PostFailed(p) == QnaRaise(p)

\* the state of a new question: nothing asked, nothing printed yet
BeginQuestion(p) ==
    /\ qn' = [qn EXCEPT ![p] = @ + 1]
    /\ calls' = [calls EXCEPT ![p] = <<>>]
    /\ out' = [out EXCEPT ![p] = <<>>]
    /\ result' = [result EXCEPT ![p] = Unset]
    /\ run' = [run EXCEPT ![p] = "none"]
    /\ lastErr' = [lastErr EXCEPT ![p] = "none"]
    /\ pc' = [pc EXCEPT ![p] = "post"]

\* thread = create_thread(client)
QnaCreateThread(p) ==
    /\ prog[p] \in QnaPrograms
    /\ pc[p] = "start"
    /\ \E ok \in BOOLEAN :
        pc' = [pc EXCEPT ![p] = IF ok THEN "input" ELSE "crashed"]
    /\ UNCHANGED <<prog, qn, run, lastErr, result, out, calls, thread, remote,
                   remoteErr, listOrder>>
    /\ UNCHANGED fmtVars

\* interactive_qa: one turn of the while True loop up to the try block
InteractiveInput(p) ==
    /\ prog[p] = "interactive_qa"
    /\ pc[p] = "input"
    /\ \E question \in {"quit", "", "text"} :
        IF question = "quit"
        THEN /\ pc' = [pc EXCEPT ![p] = "exit"]
             /\ UNCHANGED <<qn, run, lastErr, result, out, calls>>
        ELSE IF question = ""
        THEN UNCHANGED <<pc, qn, run, lastErr, result, out, calls>>
        ELSE /\ qn[p] < MaxQuestions
             /\ BeginQuestion(p)
    /\ UNCHANGED <<prog, thread, remote, remoteErr, listOrder>>
    /\ UNCHANGED fmtVars

\* test_assistant: the for loop over test_questions
TestAssistantNext(p) ==
    /\ prog[p] = "test_assistant"
    /\ pc[p] = "input"
    /\ IF qn[p] < NumTestQuestions
       THEN BeginQuestion(p)
       ELSE /\ pc' = [pc EXCEPT ![p] = "exit"]
            /\ UNCHANGED <<qn, run, lastErr, result, out, calls>>
    /\ UNCHANGED <<prog, thread, remote, remoteErr, listOrder>>
    /\ UNCHANGED fmtVars

\* add_message(client, thread.id, question)
AddMessage(p) ==
    /\ prog[p] \in QnaPrograms
    /\ pc[p] = "post"
    /\ \E ok \in BOOLEAN :
        /\ calls' = Log(p, Call("createMessage", ok, "none"))
        /\ thread' = [thread EXCEPT ![p] = IF ok THEN Append(@, UserMessage(p)) ELSE @]
        /\ pc' = [pc EXCEPT ![p] = IF ok THEN "create" ELSE PostFailed(p)]
    /\ UNCHANGED <<prog, qn, run, lastErr, result, out, remote, remoteErr, listOrder>>
    /\ UNCHANGED fmtVars

\* run_assistant: run = client.beta.threads.runs.create(...), then the loop test
RunCreate(p) ==
    /\ prog[p] \in QnaPrograms
    /\ pc[p] = "create"
    /\ \E ok \in BOOLEAN :
        IF ok
        THEN /\ calls' = Log(p, Call("createRun", TRUE, "queued"))
             /\ remote' = [remote EXCEPT ![p] = "queued"]
             /\ remoteErr' = [remoteErr EXCEPT ![p] = "none"]
             /\ run' = [run EXCEPT ![p] = "queued"]
             /\ pc' = [pc EXCEPT ![p] = IF RunAssistantPolls("queued") THEN "sleep" ELSE "branch"]
        ELSE /\ calls' = Log(p, Call("createRun", FALSE, "none"))
             /\ pc' = [pc EXCEPT ![p] = QnaRaise(p)]
             /\ UNCHANGED <<remote, remoteErr, run>>
    /\ UNCHANGED <<prog, qn, lastErr, result, out, thread, listOrder>>
    /\ UNCHANGED fmtVars

\* the loop body without its time.sleep(1): straight on to the next fetch
RunSleepSkipped(p) ==
    /\ prog[p] \in QnaPrograms
    /\ pc[p] = "sleep"
    /\ pc' = [pc EXCEPT ![p] = "retrieve"]
    /\ UNCHANGED <<prog, qn, run, lastErr, result, out, calls, thread, remote,
                   remoteErr, listOrder>>
    /\ UNCHANGED fmtVars

\* run_assistant: time.sleep(1)
RunSleep(p) ==
    /\ prog[p] \in QnaPrograms
    /\ pc[p] = "sleep"
    /\ calls' = Log(p, Call("sleep", TRUE, "none"))
    /\ pc' = [pc EXCEPT ![p] = "retrieve"]
    /\ UNCHANGED <<prog, qn, run, lastErr, result, out, thread, remote, remoteErr, listOrder>>
    /\ UNCHANGED fmtVars

\* run_assistant: run = client.beta.threads.runs.retrieve(...), then the loop test
RunRetrieve(p) ==
    /\ prog[p] \in QnaPrograms
    /\ pc[p] = "retrieve"
    /\ Cardinality(CallsOf(p, "getRun")) < MaxFetch
    /\ \E ok \in BOOLEAN :
        IF ok
        THEN /\ calls' = Log(p, Call("getRun", TRUE, remote[p]))
             /\ run' = [run EXCEPT ![p] = remote[p]]
             /\ lastErr' = [lastErr EXCEPT ![p] = remoteErr[p]]
             /\ pc' = [pc EXCEPT ![p] = IF RunAssistantPolls(remote[p]) THEN "sleep" ELSE "branch"]
        ELSE /\ calls' = Log(p, Call("getRun", FALSE, "none"))
             /\ pc' = [pc EXCEPT ![p] = QnaRaise(p)]
             /\ UNCHANGED <<run, lastErr>>
    /\ UNCHANGED <<prog, qn, result, out, thread, remote, remoteErr, listOrder>>
    /\ UNCHANGED fmtVars

\* run_assistant: if run.status == 'completed' ... elif run.status == 'failed' ...
\* return None
RunBranch(p) ==
    /\ prog[p] \in QnaPrograms
    /\ pc[p] = "branch"
    /\ IF run[p] = "completed"
       THEN /\ pc' = [pc EXCEPT ![p] = "list"]
            /\ UNCHANGED <<result, out>>
       ELSE /\ pc' = [pc EXCEPT ![p] = "print"]
            /\ result' = [result EXCEPT ![p] = NoMessage]
            /\ out' = [out EXCEPT ![p] =
                         IF run[p] = "failed"
                         THEN Append(@, Printed("run_failed", lastErr[p], 0))
                         ELSE @]
    /\ UNCHANGED <<prog, qn, run, lastErr, calls, thread, remote, remoteErr, listOrder>>
    /\ UNCHANGED fmtVars

\* run_assistant: messages = client.beta.threads.messages.list(...), the scan
\* for the first assistant message, and the return None after it
RunListMessages(p) ==
    /\ prog[p] \in QnaPrograms
    /\ pc[p] = "list"
    /\ \E ok \in BOOLEAN :
        /\ calls' = Log(p, Call("listMessages", ok, "none"))
        /\ IF ok
           THEN /\ result' = [result EXCEPT ![p] = FirstAssistant(ListMessages(p))]
                /\ pc' = [pc EXCEPT ![p] = "print"]
           ELSE /\ pc' = [pc EXCEPT ![p] = QnaRaise(p)]
                /\ UNCHANGED result
    /\ UNCHANGED <<prog, qn, run, lastErr, out, thread, remote, remoteErr, listOrder>>
    /\ UNCHANGED fmtVars

\* print_response(response)
PrintResponse(p) ==
    /\ prog[p] \in QnaPrograms
    /\ pc[p] = "print"
    /\ out' = [out EXCEPT ![p] =
                 IF result[p] = NoMessage
                 THEN Append(@, Printed("no_response", "none", 0))
                 ELSE Append(@, Printed("response", "none", result[p].id))]
    /\ pc' = [pc EXCEPT ![p] = "input"]
    /\ UNCHANGED <<prog, qn, run, lastErr, result, calls, thread, remote, remoteErr, listOrder>>
    /\ UNCHANGED fmtVars

\* except Exception as e: print(f"Error: {e}")
QnaExcept(p) ==
    /\ prog[p] \in QnaPrograms
    /\ pc[p] = "except"
    /\ out' = [out EXCEPT ![p] = Append(@, Printed("error", "none", 0))]
    /\ pc' = [pc EXCEPT ![p] = "input"]
    /\ UNCHANGED <<prog, qn, run, lastErr, result, calls, thread, remote, remoteErr, listOrder>>
    /\ UNCHANGED fmtVars

(***************************************************************************)
(* scripts/ask_question.py                                                 *)
(***************************************************************************)
\* if run_status.status in ["completed", "failed", "cancelled"]: break
AskQuestionStops(status) == status \in {"completed", "failed", "cancelled"}

\* for msg in reversed(messages.data): if msg.role == "assistant": ... break
LastAssistant(messages) == FirstAssistant(Reverse(messages))

\* thread = client.beta.threads.create()
AskCreateThread(p) ==
    /\ prog[p] = "ask_question"
    /\ pc[p] = "start"
    /\ \E ok \in BOOLEAN :
        /\ pc' = [pc EXCEPT ![p] = IF ok THEN "post" ELSE "crashed"]
        /\ qn' = [qn EXCEPT ![p] = IF ok THEN 1 ELSE @]
    /\ UNCHANGED <<prog, run, lastErr, result, out, calls, thread, remote,
                   remoteErr, listOrder>>
    /\ UNCHANGED fmtVars

\* message = client.beta.threads.messages.create(...)
AskCreateMessage(p) ==
    /\ prog[p] = "ask_question"
    /\ pc[p] = "post"
    /\ \E ok \in BOOLEAN :
        /\ calls' = Log(p, Call("createMessage", ok, "none"))
        /\ thread' = [thread EXCEPT ![p] = IF ok THEN Append(@, UserMessage(p)) ELSE @]
        /\ pc' = [pc EXCEPT ![p] = IF ok THEN "create" ELSE "crashed"]
    /\ UNCHANGED <<prog, qn, run, lastErr, result, out, remote, remoteErr, listOrder>>
    /\ UNCHANGED fmtVars

\* run = client.beta.threads.runs.create(...)
AskCreateRun(p) ==
    /\ prog[p] = "ask_question"
    /\ pc[p] = "create"
    /\ \E ok \in BOOLEAN :
        IF ok
        THEN /\ calls' = Log(p, Call("createRun", TRUE, "queued"))
             /\ remote' = [remote EXCEPT ![p] = "queued"]
             /\ remoteErr' = [remoteErr EXCEPT ![p] = "none"]
             /\ pc' = [pc EXCEPT ![p] = "retrieve"]
        ELSE /\ calls' = Log(p, Call("createRun", FALSE, "none"))
             /\ pc' = [pc EXCEPT ![p] = "crashed"]
             /\ UNCHANGED <<remote, remoteErr>>
    /\ UNCHANGED <<prog, qn, run, lastErr, result, out, thread, listOrder>>
    /\ UNCHANGED fmtVars

\* while True: run_status = client.beta.threads.runs.retrieve(...); if ...: break
AskRetrieve(p) ==
    /\ prog[p] = "ask_question"
    /\ pc[p] = "retrieve"
    /\ Cardinality(CallsOf(p, "getRun")) < MaxFetch
    /\ \E ok \in BOOLEAN :
        IF ok
        THEN /\ calls' = Log(p, Call("getRun", TRUE, remote[p]))
             /\ run' = [run EXCEPT ![p] = remote[p]]
             /\ lastErr' = [lastErr EXCEPT ![p] = remoteErr[p]]
             /\ pc' = [pc EXCEPT ![p] = IF AskQuestionStops(remote[p]) THEN "branch" ELSE "sleep"]
        ELSE /\ calls' = Log(p, Call("getRun", FALSE, "none"))
             /\ pc' = [pc EXCEPT ![p] = "crashed"]
             /\ UNCHANGED <<run, lastErr>>
    /\ UNCHANGED <<prog, qn, result, out, thread, remote, remoteErr, listOrder>>
    /\ UNCHANGED fmtVars

\* time.sleep(1)
AskSleep(p) ==
    /\ prog[p] = "ask_question"
    /\ pc[p] = "sleep"
    /\ calls' = Log(p, Call("sleep", TRUE, "none"))
    /\ pc' = [pc EXCEPT ![p] = "retrieve"]
    /\ UNCHANGED <<prog, qn, run, lastErr, result, out, thread, remote, remoteErr, listOrder>>
    /\ UNCHANGED fmtVars

\* if run_status.status == "completed": ... else: print("Run did not complete ...")
AskBranch(p) ==
    /\ prog[p] = "ask_question"
    /\ pc[p] = "branch"
    /\ IF run[p] = "completed"
       THEN /\ pc' = [pc EXCEPT ![p] = "list"]
            /\ UNCHANGED out
       ELSE /\ pc' = [pc EXCEPT ![p] = "exit"]
            /\ out' = [out EXCEPT ![p] = Append(@, Printed("not_completed", run[p], 0))]
    /\ UNCHANGED <<prog, qn, run, lastErr, result, calls, thread, remote, remoteErr, listOrder>>
    /\ UNCHANGED fmtVars

\* messages = client.beta.threads.messages.list(...) and the reversed scan
AskListMessages(p) ==
    /\ prog[p] = "ask_question"
    /\ pc[p] = "list"
    /\ \E ok \in BOOLEAN :
        /\ calls' = Log(p, Call("listMessages", ok, "none"))
        /\ IF ok
           THEN /\ result' = [result EXCEPT ![p] = LastAssistant(ListMessages(p))]
                /\ out' = [out EXCEPT ![p] =
                             IF LastAssistant(ListMessages(p)) = NoMessage THEN @
                             ELSE Append(@, Printed("response", "none",
                                                    LastAssistant(ListMessages(p)).id))]
                /\ pc' = [pc EXCEPT ![p] = "exit"]
           ELSE /\ pc' = [pc EXCEPT ![p] = "crashed"]
                /\ UNCHANGED <<result, out>>
    /\ UNCHANGED <<prog, qn, run, lastErr, thread, remote, remoteErr, listOrder>>
    /\ UNCHANGED fmtVars

(***************************************************************************)
(* tests/test_notes_schema.py                                              *)
(***************************************************************************)
\* if run_status.status in ['completed', 'failed']: break
TestScriptStops(status) == status \in {"completed", "failed"}

\* for message in messages.data: if message.role == "assistant": print(...)
RECURSIVE PrintAssistants(_)
PrintAssistants(messages) ==
    IF messages = <<>> THEN <<>>
    ELSE (IF Head(messages).role = "assistant"
          THEN <<Printed("response", "none", Head(messages).id)>>
          ELSE <<>>) \o PrintAssistants(Tail(messages))

\* thread = client.beta.threads.create()
TestCreateThread(p) ==
    /\ prog[p] = "test_notes_schema"
    /\ pc[p] = "start"
    /\ \E ok \in BOOLEAN :
        /\ pc' = [pc EXCEPT ![p] = IF ok THEN "post" ELSE "crashed"]
        /\ qn' = [qn EXCEPT ![p] = IF ok THEN 1 ELSE @]
    /\ UNCHANGED <<prog, run, lastErr, result, out, calls, thread, remote,
                   remoteErr, listOrder>>
    /\ UNCHANGED fmtVars

\* client.beta.threads.messages.create(...)
TestCreateMessage(p) ==
    /\ prog[p] = "test_notes_schema"
    /\ pc[p] = "post"
    /\ \E ok \in BOOLEAN :
        /\ calls' = Log(p, Call("createMessage", ok, "none"))
        /\ thread' = [thread EXCEPT ![p] = IF ok THEN Append(@, UserMessage(p)) ELSE @]
        /\ pc' = [pc EXCEPT ![p] = IF ok THEN "create" ELSE "crashed"]
    /\ UNCHANGED <<prog, qn, run, lastErr, result, out, remote, remoteErr, listOrder>>
    /\ UNCHANGED fmtVars

\* run = client.beta.threads.runs.create(...)
TestCreateRun(p) ==
    /\ prog[p] = "test_notes_schema"
    /\ pc[p] = "create"
    /\ \E ok \in BOOLEAN :
        IF ok
        THEN /\ calls' = Log(p, Call("createRun", TRUE, "queued"))
             /\ remote' = [remote EXCEPT ![p] = "queued"]
             /\ remoteErr' = [remoteErr EXCEPT ![p] = "none"]
             /\ pc' = [pc EXCEPT ![p] = "retrieve"]
        ELSE /\ calls' = Log(p, Call("createRun", FALSE, "none"))
             /\ pc' = [pc EXCEPT ![p] = "crashed"]
             /\ UNCHANGED <<remote, remoteErr>>
    /\ UNCHANGED <<prog, qn, run, lastErr, result, out, thread, listOrder>>
    /\ UNCHANGED fmtVars

\* while True: run_status = client.beta.threads.runs.retrieve(...); if ...: break
TestRetrieve(p) ==
    /\ prog[p] = "test_notes_schema"
    /\ pc[p] = "retrieve"
    /\ Cardinality(CallsOf(p, "getRun")) < MaxFetch
    /\ \E ok \in BOOLEAN :
        IF ok
        THEN /\ calls' = Log(p, Call("getRun", TRUE, remote[p]))
             /\ run' = [run EXCEPT ![p] = remote[p]]
             /\ lastErr' = [lastErr EXCEPT ![p] = remoteErr[p]]
             /\ pc' = [pc EXCEPT ![p] = IF TestScriptStops(remote[p]) THEN "list" ELSE "sleep"]
        ELSE /\ calls' = Log(p, Call("getRun", FALSE, "none"))
             /\ pc' = [pc EXCEPT ![p] = "crashed"]
             /\ UNCHANGED <<run, lastErr>>
    /\ UNCHANGED <<prog, qn, result, out, thread, remote, remoteErr, listOrder>>
    /\ UNCHANGED fmtVars

\* time.sleep(1)
TestSleep(p) ==
    /\ prog[p] = "test_notes_schema"
    /\ pc[p] = "sleep"
    /\ calls' = Log(p, Call("sleep", TRUE, "none"))
    /\ pc' = [pc EXCEPT ![p] = "retrieve"]
    /\ UNCHANGED <<prog, qn, run, lastErr, result, out, thread, remote, remoteErr, listOrder>>
    /\ UNCHANGED fmtVars

\* messages = client.beta.threads.messages.list(...) and the printing loop
TestListMessages(p) ==
    /\ prog[p] = "test_notes_schema"
    /\ pc[p] = "list"
    /\ \E ok \in BOOLEAN :
        /\ calls' = Log(p, Call("listMessages", ok, "none"))
        /\ IF ok
           THEN /\ out' = [out EXCEPT ![p] = @ \o PrintAssistants(ListMessages(p))]
                /\ pc' = [pc EXCEPT ![p] = "exit"]
           ELSE /\ pc' = [pc EXCEPT ![p] = "crashed"]
                /\ UNCHANGED out
    /\ UNCHANGED <<prog, qn, run, lastErr, result, thread, remote, remoteErr, listOrder>>
    /\ UNCHANGED fmtVars

(***************************************************************************)
(* One client at a time: the script chosen at start-up, on its own thread  *)
(***************************************************************************)
IdleFormatter ==
    /\ message = <<>>
    /\ formatted = [text |-> <<>>, parts |-> <<>>, citations |-> <<>>, markers |-> <<>>]
    /\ fpc = "off"

Init ==
    /\ prog \in {f \in [Procs -> Programs \cup {"none"}] : f[1] # "none" /\ f[2] = "none"}
    /\ pc = [p \in Procs |-> IF prog[p] = "none" THEN "off" ELSE "start"]
    /\ qn = [p \in Procs |-> 0]
    /\ run = [p \in Procs |-> "none"]
    /\ lastErr = [p \in Procs |-> "none"]
    /\ result = [p \in Procs |-> Unset]
    /\ out = [p \in Procs |-> <<>>]
    /\ calls = [p \in Procs |-> <<>>]
    /\ thread = [p \in Procs |-> <<>>]
    /\ remote = [p \in Procs |-> "none"]
    /\ remoteErr = [p \in Procs |-> "none"]
    /\ listOrder \in {"asc", "desc"}
    /\ IdleFormatter

Step(p) ==
    \/ ServiceAdvance(p)
    \/ ServiceComplete(p)
    \/ QnaCreateThread(p)
    \/ InteractiveInput(p)
    \/ TestAssistantNext(p)
    \/ AddMessage(p)
    \/ RunCreate(p)
    \/ RunSleep(p)
    \/ RunRetrieve(p)
    \/ RunBranch(p)
    \/ RunListMessages(p)
    \/ PrintResponse(p)
    \/ QnaExcept(p)
    \/ AskCreateThread(p)
    \/ AskCreateMessage(p)
    \/ AskCreateRun(p)
    \/ AskRetrieve(p)
    \/ AskSleep(p)
    \/ AskBranch(p)
    \/ AskListMessages(p)
    \/ TestCreateThread(p)
    \/ TestCreateMessage(p)
    \/ TestCreateRun(p)
    \/ TestRetrieve(p)
    \/ TestSleep(p)
    \/ TestListMessages(p)

Next == \E p \in Procs : Step(p)

Spec == Init /\ [][Next]_vars

(***************************************************************************)
(* Properties of the polling loops                                         *)
(***************************************************************************)
\* the statuses the client has read so far for the current question, in order
RECURSIVE StatusesOf(_)
StatusesOf(log) ==
    IF log = <<>> THEN <<>>
    ELSE (IF Head(log).op \in {"createRun", "getRun"} /\ Head(log).ok
          THEN <<Head(log).status>> ELSE <<>>) \o StatusesOf(Tail(log))

NonTerminalObserved(p) == {j \in Observations(p) : calls[p][j].status \in NonTerminal}

\* C1: in run_assistant every status fetch directly follows the observation of a
\* status in {queued, in_progress, cancelling}, no fetch follows the observation
\* of any other status, and once the loop is left the number of fetches issued
\* equals the number of non-terminal statuses observed.
C1_FetchPerNonTerminalStatus ==
    \A p \in Procs : prog[p] \in QnaPrograms =>
        /\ \A i \in CallsOf(p, "getRun") :
            \E j \in NonTerminalObserved(p) :
                /\ j < i
                /\ \A k \in Observations(p) : ~(j < k /\ k < i)
        /\ \A j \in Observations(p) :
            calls[p][j].status \notin NonTerminal =>
                \A i \in CallsOf(p, "getRun") : i <= j
        /\ pc[p] \notin {"sleep", "retrieve"} =>
            Cardinality(CallsOf(p, "getRun")) = Cardinality(NonTerminalObserved(p))

\* C1 witness: run_assistant has left its loop after observing queued,
\* in_progress, failed, with exactly two status fetches issued.
C1_Witness ==
    \E p \in Procs :
        /\ prog[p] \in QnaPrograms
        /\ pc[p] = "branch"
        /\ StatusesOf(calls[p]) = <<"queued", "in_progress", "failed">>
        /\ Cardinality(CallsOf(p, "getRun")) = 2

\* C2: in every polling loop, once the client has read a status in
\* {completed, failed, cancelled, expired} the loop is left: the client neither
\* sleeps nor fetches the status again.
C2_TerminalStatusEndsPolling ==
    \A p \in Procs : run[p] \in Terminal => pc[p] \notin {"sleep", "retrieve"}

\* C3: the message list of the thread is fetched only after a status of
\* completed has been read for the run.
C3_ListOnlyAfterCompleted ==
    \A p \in Procs : \A i \in CallsOf(p, "listMessages") :
        \E j \in Observations(p) : j < i /\ calls[p][j].status = "completed"

\* the error variants the result of an ask is said to carry
RunFailedError(detail) == [role |-> "RunFailedError", id |-> 0, q |-> 0, detail |-> detail]
RunTerminatedError(status) == [role |-> "RunTerminatedError", id |-> 0, q |-> 0, detail |-> status]
NoAssistantReplyError == [role |-> "NoAssistantReplyError", id |-> 0, q |-> 0, detail |-> "none"]

\* C4: when run_assistant returns for a run that ended failed, cancelled or
\* expired, the returned value is the error variant of that status:
\* RunFailedError with the run's last_error, or RunTerminatedError with the status.
C4_ErrorVariantMatchesStatus ==
    \A p \in Procs :
        (prog[p] \in QnaPrograms /\ pc[p] = "print" /\ run[p] \in Terminal \ {"completed"}) =>
            result[p] = IF run[p] = "failed"
                        THEN RunFailedError(lastErr[p])
                        ELSE RunTerminatedError(run[p])

\* the assistant messages of a thread, by position
AssistantPositions(t) == {i \in 1..Len(t) : t[i].role = "assistant"}

\* the most recent assistant message of a thread
MostRecentAssistant(t) ==
    t[CHOOSE i \in AssistantPositions(t) : \A k \in AssistantPositions(t) : k <= i]

ListedOk(p) == \E i \in CallsOf(p, "listMessages") : calls[p][i].ok

\* C5: when the service lists a thread oldest first, the message selected after
\* a completed run (by run_assistant and by ask_question) is the most recent
\* assistant message of the thread.
C5_SelectsMostRecentAssistant ==
    \A p \in Procs :
        (/\ listOrder = "asc"
         /\ prog[p] \in QnaPrograms \cup {"ask_question"}
         /\ pc[p] \in {"print", "exit"}
         /\ ListedOk(p)
         /\ AssistantPositions(thread[p]) # {}) =>
            result[p] = MostRecentAssistant(thread[p])

\* C6: when run_assistant returns for a completed run whose thread holds no
\* assistant message, the returned value is NoAssistantReplyError, a value other
\* than the one returned for a failed, cancelled or expired run.
C6_NoReplyIsItsOwnError ==
    \A p \in Procs :
        (/\ prog[p] \in QnaPrograms
         /\ pc[p] = "print"
         /\ ListedOk(p)
         /\ AssistantPositions(thread[p]) = {}) =>
            result[p] = NoAssistantReplyError

\* C10: a run is created only after the message of the same question was
\* posted successfully, and a failed post is the last remote call of its question.
C10_RunOnlyAfterPost ==
    \A p \in Procs :
        /\ \A i \in CallsOf(p, "createRun") :
            \E j \in CallsOf(p, "createMessage") : j < i /\ calls[p][j].ok
        /\ \A j \in CallsOf(p, "createMessage") :
            ~calls[p][j].ok => j = Len(calls[p])

\* C10 witness: in interactive_qa the post of a question failed, the handler has
\* reported it and the session is back at its prompt with no run started.
C10_Witness ==
    \E p \in Procs :
        /\ prog[p] = "interactive_qa"
        /\ pc[p] = "input"
        /\ qn[p] = 1
        /\ calls[p] = <<Call("createMessage", FALSE, "none")>>
        /\ remote[p] = "none"

(***************************************************************************)
(* format_message_content (scripts/01_qna_assistant.py)                    *)
(*                                                                         *)
(* A text is a sequence of one-character strings.  A message is its        *)
(* content: a sequence of blocks [type, value, annotations]; an annotation *)
(* is [type, text, file_id, quote], text being the annotated span, which   *)
(* is never empty.                                                         *)
(***************************************************************************)
Chars == {"A", "1"}

\* the file_citation payloads: quote is optional
Cited == {[file_id |-> "file-1", quote |-> "q"], [file_id |-> "file-2", quote |-> "none"]}

\* the annotations of a one-character span
Annotations ==
    {[type |-> "file_citation", text |-> <<ch>>, file_id |-> c.file_id, quote |-> c.quote] :
        ch \in Chars, c \in Cited}
    \cup {[type |-> "file_path", text |-> <<ch>>, file_id |-> "none", quote |-> "none"] :
        ch \in Chars}

TextBlock == [type |-> "text", value |-> <<>>, annotations |-> <<>>]
ImageBlock == [type |-> "image_file", value |-> <<>>, annotations |-> <<>>]

RECURSIVE SpanChars(_)
SpanChars(annotations) ==
    IF annotations = <<>> THEN 0
    ELSE Len(Head(annotations).text) + SpanChars(Tail(annotations))

\* the size of a message: 1 for each content block, plus the characters of its
\* text and of its annotations' spans
RECURSIVE MessageSize(_)
MessageSize(m) ==
    IF m = <<>> THEN 0
    ELSE 1 + Len(Head(m).value) + SpanChars(Head(m).annotations) + MessageSize(Tail(m))

Composing == fpc = "ready" /\ MessageSize(message) < MaxSize

LastIsText == message # <<>> /\ message[Len(message)].type = "text"

\* the service adds a content block to the message
AppendBlock ==
    /\ Composing
    /\ \E b \in {TextBlock, ImageBlock} : message' = Append(message, b)
    /\ UNCHANGED <<formatted, fpc>>
    /\ UNCHANGED flowVars

\* the service adds a character to the text of the last block
AppendChar ==
    /\ Composing
    /\ LastIsText
    /\ \E ch \in Chars :
        message' = [message EXCEPT ![Len(message)].value = Append(@, ch)]
    /\ UNCHANGED <<formatted, fpc>>
    /\ UNCHANGED flowVars

\* the service adds an annotation to the last block
AppendAnnotation ==
    /\ Composing
    /\ LastIsText
    /\ \E a \in Annotations :
        message' = [message EXCEPT ![Len(message)].annotations = Append(@, a)]
    /\ UNCHANGED <<formatted, fpc>>
    /\ UNCHANGED flowVars

\* the service makes the span of the last annotation one character longer
ExtendSpan ==
    /\ Composing
    /\ LastIsText
    /\ message[Len(message)].annotations # <<>>
    /\ \E ch \in Chars :
        message' = [message EXCEPT
            ![Len(message)].annotations[Len(message[Len(message)].annotations)].text =
                Append(@, ch)]
    /\ UNCHANGED <<formatted, fpc>>
    /\ UNCHANGED flowVars

Digit(d) == <<"0", "1", "2", "3", "4", "5", "6", "7", "8", "9">>[d + 1]

\* str(n) of the f-string
RECURSIVE Decimal(_)
Decimal(n) == IF n < 10 THEN <<Digit(n)>> ELSE Decimal(n \div 10) \o <<Digit(n % 10)>>

\* f" [Citation {n}]"
Marker(n) ==
    <<" ", "[", "C", "i", "t", "a", "t", "i", "o", "n", " ">> \o Decimal(n) \o <<"]">>

\* str.replace(old, new) for a non-empty old: every occurrence, found left to
\* right without overlap, in the text as it is when the call is made
RECURSIVE Replace(_, _, _)
Replace(text, old, new) ==
    IF Len(text) < Len(old) THEN text
    ELSE IF SubSeq(text, 1, Len(old)) = old
    THEN new \o Replace(SubSeq(text, Len(old) + 1, Len(text)), old, new)
    ELSE <<Head(text)>> \o Replace(Tail(text), old, new)

\* the number off by one: taken before the citation is appended
MarkerNumberBeforeAppend(citations) == Len(citations) - 1

\* len(citations), read after citations.append(citation)
MarkerNumber(citations) == Len(citations)

\* the body of "for annotation in content.text.annotations"; st holds the
\* locals text and citations, and markers, the numbers put into markers so far
AnnotationStep(st, annotation) ==
    IF annotation.type = "file_citation"
    THEN LET citations == Append(st.citations,
                                 [file_id |-> annotation.file_id, quote |-> annotation.quote])
         IN  [text |-> Replace(st.text, annotation.text, Marker(MarkerNumber(citations))),
              citations |-> citations,
              markers |-> Append(st.markers, MarkerNumber(citations))]
    ELSE st

RECURSIVE AnnotationLoop(_, _)
AnnotationLoop(st, annotations) ==
    IF annotations = <<>> THEN st
    ELSE AnnotationLoop(AnnotationStep(st, Head(annotations)), Tail(annotations))

\* the body of "for content in message.content"; acc holds content_parts,
\* citations and markers
ContentStep(acc, content) ==
    IF content.type = "text"
    THEN LET st == AnnotationLoop([text |-> content.value,
                                   citations |-> acc.citations,
                                   markers |-> acc.markers],
                                  content.annotations)
         IN  [parts |-> Append(acc.parts, st.text),
              citations |-> st.citations,
              markers |-> st.markers]
    ELSE acc

RECURSIVE ContentLoop(_, _)
ContentLoop(acc, contents) ==
    IF contents = <<>> THEN acc
    ELSE ContentLoop(ContentStep(acc, Head(contents)), Tail(contents))

\* '\n'.join(content_parts)
RECURSIVE JoinLines(_)
JoinLines(parts) ==
    IF parts = <<>> THEN <<>>
    ELSE IF Len(parts) = 1 THEN parts[1]
    ELSE parts[1] \o <<"\n">> \o JoinLines(Tail(parts))

NotFormatted == [text |-> <<>>, parts |-> <<>>, citations |-> <<>>, markers |-> <<>>]

FormatMessageContent(m) ==
    LET acc == ContentLoop([parts |-> <<>>, citations |-> <<>>, markers |-> <<>>], m)
    IN  [text |-> JoinLines(acc.parts),
         parts |-> acc.parts,
         citations |-> acc.citations,
         markers |-> acc.markers]

\* content, citations = format_message_content(message)
FormatMessage ==
    /\ fpc = "ready"
    /\ formatted' = FormatMessageContent(message)
    /\ fpc' = "formatted"
    /\ UNCHANGED message
    /\ UNCHANGED flowVars

InitFmt ==
    /\ message = <<>>
    /\ formatted = NotFormatted
    /\ fpc = "ready"
    /\ prog = [p \in Procs |-> "none"]
    /\ pc = [p \in Procs |-> "off"]
    /\ qn = [p \in Procs |-> 0]
    /\ run = [p \in Procs |-> "none"]
    /\ lastErr = [p \in Procs |-> "none"]
    /\ result = [p \in Procs |-> Unset]
    /\ out = [p \in Procs |-> <<>>]
    /\ calls = [p \in Procs |-> <<>>]
    /\ thread = [p \in Procs |-> <<>>]
    /\ remote = [p \in Procs |-> "none"]
    /\ remoteErr = [p \in Procs |-> "none"]
    /\ listOrder = "asc"

NextFmt ==
    \/ AppendBlock
    \/ AppendChar
    \/ AppendAnnotation
    \/ ExtendSpan
    \/ FormatMessage

SpecFmt == InitFmt /\ [][NextFmt]_vars

(***************************************************************************)
(* Properties of format_message_content                                    *)
(***************************************************************************)
\* the file_citation annotations of a message, in block order then in-block order
RECURSIVE FileCitations(_)
FileCitations(m) ==
    IF m = <<>> THEN <<>>
    ELSE (IF Head(m).type = "text"
          THEN SelectSeq(Head(m).annotations, LAMBDA a : a.type = "file_citation")
          ELSE <<>>) \o FileCitations(Tail(m))

\* positions at which span occurs in text
Occurrences(text, span) ==
    {i \in 1..(Len(text) - Len(span) + 1) : SubSeq(text, i, i + Len(span) - 1) = span}

\* C7: the citations returned are the file_citation annotations of the message
\* in block order then in-block order, so their positions are 1..N, and the
\* marker made for the k-th of them carries the number k.
C7_CitationIndicesContiguous ==
    fpc = "formatted" =>
        LET cited == FileCitations(message)
            N == Len(cited)
        IN  /\ Len(formatted.citations) = N
            /\ \A k \in 1..N :
                formatted.citations[k] =
                    [file_id |-> cited[k].file_id, quote |-> cited[k].quote]
            /\ formatted.markers = [k \in 1..N |-> k]

\* C7 witness: a formatted message of two text blocks holding two file_citation
\* annotations, one per block, and a file_path annotation before the second;
\* the second block's span was replaced by the marker numbered 2.
C7_Witness ==
    /\ fpc = "formatted"
    /\ Len(message) = 2
    /\ message[1].type = "text" /\ message[2].type = "text"
    /\ Len(message[1].annotations) = 1
    /\ message[1].annotations[1].type = "file_citation"
    /\ Len(message[2].annotations) = 2
    /\ message[2].annotations[1].type = "file_path"
    /\ message[2].annotations[2].type = "file_citation"
    /\ formatted.citations[1].file_id # formatted.citations[2].file_id
    /\ Occurrences(message[2].value, message[2].annotations[2].text) # {}
    /\ formatted.parts[2] = Marker(2)

\* C8: in a message of text blocks, a block whose only annotation is a
\* file_citation whose span does not occur exactly once in the block's text
\* comes out with its text unmodified.
C8_AmbiguousSpanLeftUnmodified ==
    fpc = "formatted" =>
        \A i \in 1..Len(message) :
            (/\ \A j \in 1..Len(message) : message[j].type = "text"
             /\ Len(message[i].annotations) = 1
             /\ message[i].annotations[1].type = "file_citation"
             /\ Cardinality(Occurrences(message[i].value, message[i].annotations[1].text)) # 1) =>
                formatted.parts[i] = message[i].value

\* a text whose characters carry the number of the marker that brought them in
\* (0: a character of the block's original text)
Tagged(text, n) == [i \in 1..Len(text) |-> [c |-> text[i], m |-> n]]
Untagged(tagged) == [i \in 1..Len(tagged) |-> tagged[i].c]

\* span replaced by the marker numbered n wherever it occurs in original text:
\* characters brought in by an earlier marker are never matched
RECURSIVE ReplaceInOriginal(_, _, _)
ReplaceInOriginal(tagged, span, n) ==
    IF Len(tagged) < Len(span) THEN tagged
    ELSE IF \A i \in 1..Len(span) : tagged[i].m = 0 /\ tagged[i].c = span[i]
    THEN Tagged(Marker(n), n)
         \o ReplaceInOriginal(SubSeq(tagged, Len(span) + 1, Len(tagged)), span, n)
    ELSE <<Head(tagged)>> \o ReplaceInOriginal(Tail(tagged), span, n)

\* one block's text with its file_citation spans replaced in its original text;
\* first is the number of the block's first citation
RECURSIVE BlockInOriginal(_, _, _)
BlockInOriginal(tagged, annotations, first) ==
    IF annotations = <<>> THEN tagged
    ELSE IF Head(annotations).type = "file_citation"
    THEN BlockInOriginal(ReplaceInOriginal(tagged, Head(annotations).text, first),
                         Tail(annotations), first + 1)
    ELSE BlockInOriginal(tagged, Tail(annotations), first)

RECURSIVE PartsInOriginal(_, _)
PartsInOriginal(m, first) ==
    IF m = <<>> THEN <<>>
    ELSE IF Head(m).type = "text"
    THEN <<Untagged(BlockInOriginal(Tagged(Head(m).value, 0), Head(m).annotations, first))>>
         \o PartsInOriginal(Tail(m), first + Len(FileCitations(<<Head(m)>>)))
    ELSE PartsInOriginal(Tail(m), first)

\* C9: the text returned is the text blocks joined by one newline in block
\* order, each block's text having its file_citation spans replaced by
\* " [Citation k]" within the block's own original text: no replacement touches
\* another block's text or the characters of a marker inserted earlier.
C9_ReplacementWithinOriginalText ==
    fpc = "formatted" =>
        formatted.text = JoinLines(PartsInOriginal(message, 1))

(***************************************************************************)
(* Properties of one question's remote calls                               *)
(***************************************************************************)
RemoteOps == {"createMessage", "createRun", "getRun", "listMessages"}

\* the user messages of a thread, by position
UserPositions(t) == {i \in 1..Len(t) : t[i].role = "user"}

\* C11: for each question createMessage and createRun are each called at most
\* once, a remote call that failed is the last remote call of its question, and
\* every question posts a message of its own: no two user messages of a thread
\* belong to the same question.
C11_NoRetryWithinAsk ==
    \A p \in Procs :
        /\ Cardinality(CallsOf(p, "createMessage")) <= 1
        /\ Cardinality(CallsOf(p, "createRun")) <= 1
        /\ \A i \in 1..Len(calls[p]) :
            (calls[p][i].op \in RemoteOps /\ ~calls[p][i].ok) =>
                \A j \in 1..Len(calls[p]) : j > i => calls[p][j].op \notin RemoteOps
        /\ \A i, j \in UserPositions(thread[p]) :
            thread[p][i].q = thread[p][j].q => i = j

\* C11 witness: the second question of a session has posted its own message
\* and started its own run, and its first status fetch has just failed, which
\* the handler is about to report.
C11_Witness ==
    \E p \in Procs :
        /\ prog[p] \in QnaPrograms
        /\ qn[p] = 2
        /\ pc[p] = "except"
        /\ calls[p] = <<Call("createMessage", TRUE, "none"),
                        Call("createRun", TRUE, "queued"),
                        Call("sleep", TRUE, "none"),
                        Call("getRun", FALSE, "none")>>
        /\ Cardinality(UserPositions(thread[p])) = 2

\* the time slept between the i-th and the j-th entry of a question's calls
Waited(p, i, j) ==
    SleepSeconds * Cardinality({k \in CallsOf(p, "sleep") : i < k /\ k < j})

\* C12: in every polling loop, between any two status fetches of a run the
\* client has slept: the wait between them is at least one sleep of 1 time
\* unit, never zero.
C12_SleepBetweenFetches ==
    \A p \in Procs : \A i, j \in CallsOf(p, "getRun") :
        i < j => Waited(p, i, j) >= 1

\* C12 witness: the loop of ask_question has fetched the status three times,
\* with exactly one sleep of 1 time unit between consecutive fetches.
C12_Witness ==
    \E p \in Procs :
        /\ Cardinality(CallsOf(p, "getRun")) = 3
        /\ \A i, j \in CallsOf(p, "getRun") :
            (i < j /\ ~\E k \in CallsOf(p, "getRun") : i < k /\ k < j) =>
                Waited(p, i, j) = 1
        /\ prog[p] = "ask_question"

(***************************************************************************)
(* Two asks at once, each on a thread of its own: an ask_question call     *)
(* beside another ask_question call or beside one question of an           *)
(* interactive_qa session (whose earlier questions, if any, never reached  *)
(* the thread).  The service lists threads oldest first.                   *)
(***************************************************************************)
InitConc ==
    /\ prog \in {f \in [Procs -> {"ask_question", "interactive_qa"}] : f[2] = "ask_question"}
    /\ pc = [p \in Procs |-> "start"]
    /\ qn = [p \in Procs |-> IF prog[p] = "interactive_qa" THEN MaxQuestions - 1 ELSE 0]
    /\ run = [p \in Procs |-> "none"]
    /\ lastErr = [p \in Procs |-> "none"]
    /\ result = [p \in Procs |-> Unset]
    /\ out = [p \in Procs |-> <<>>]
    /\ calls = [p \in Procs |-> <<>>]
    /\ thread = [p \in Procs |-> <<>>]
    /\ remote = [p \in Procs |-> "none"]
    /\ remoteErr = [p \in Procs |-> "none"]
    /\ listOrder = "asc"
    /\ IdleFormatter

StepConc(p) ==
    \/ ServiceAdvance(p)
    \/ ServiceComplete(p)
    \/ QnaCreateThread(p)
    \/ InteractiveInput(p)
    \/ AddMessage(p)
    \/ RunCreate(p)
    \/ RunSleep(p)
    \/ RunRetrieve(p)
    \/ RunBranch(p)
    \/ RunListMessages(p)
    \/ PrintResponse(p)
    \/ QnaExcept(p)
    \/ AskCreateThread(p)
    \/ AskCreateMessage(p)
    \/ AskCreateRun(p)
    \/ AskRetrieve(p)
    \/ AskSleep(p)
    \/ AskBranch(p)
    \/ AskListMessages(p)

NextConc == \E p \in Procs : StepConc(p)

SpecConc == InitConc /\ [][NextConc]_vars

\* everything that belongs to the ask of process p: its locals, its thread and
\* its run
Own(p) == <<prog[p], pc[p], qn[p], run[p], lastErr[p], result[p], out[p], calls[p],
            thread[p], remote[p], remoteErr[p]>>

\* the message an ask selects from a listing when it runs alone
SelectedAlone(p, listing) ==
    IF prog[p] = "ask_question" THEN LastAssistant(listing) ELSE FirstAssistant(listing)

\* what the step just taken has added to the calls of p (when it added one)
Added(p) == calls'[p][Len(calls'[p])]

\* C13: two asks on different threads do not interfere.  Every step changes the
\* state of one ask only; a status an ask reads is the status of its own run;
\* and the message an ask ends with is the one it selects, as when run alone,
\* from the listing of its own thread.
C13_ConcurrentAsksIndependent ==
    /\ [][/\ \E p \in Procs : \A o \in Procs \ {p} : Own(o)' = Own(o)
          /\ \A p \in Procs :
                (/\ Len(calls'[p]) = Len(calls[p]) + 1
                 /\ Added(p).op = "getRun"
                 /\ Added(p).ok) =>
                    (Added(p).status = remote[p] /\ run'[p] = remote[p])
          /\ \A p \in Procs :
                (/\ Len(calls'[p]) = Len(calls[p]) + 1
                 /\ Added(p).op = "listMessages"
                 /\ Added(p).ok) =>
                    result'[p] = SelectedAlone(p, thread[p])]_vars

\* C13 witness: two ask_question calls have both run to their end, interleaved,
\* one selecting the reply of its own completed run, the other ending on its
\* own failed run with nothing selected.
C13_Witness ==
    /\ prog[1] = "ask_question" /\ prog[2] = "ask_question"
    /\ pc[1] = "exit" /\ pc[2] = "exit"
    /\ run[1] = "completed" /\ result[1].role = "assistant"
    /\ run[2] = "failed" /\ result[2] = Unset
    /\ Len(thread[1]) = 2 /\ Len(thread[2]) = 1
    /\ calls[1][Len(calls[1])].op = "listMessages"

(***************************************************************************)
(* Several questions on one thread                                         *)
(***************************************************************************)
\* the messages of role r that question k brought to thread t
OfQuestion(t, r, k) == {i \in 1..Len(t) : t[i].role = r /\ t[i].q = k}

\* every question so far was posted and its run completed after appending
\* exactly one assistant reply
OneReplyPerQuestion(p) ==
    \A k \in 1..qn[p] :
        /\ Cardinality(OfQuestion(thread[p], "user", k)) = 1
        /\ Cardinality(OfQuestion(thread[p], "assistant", k)) = 1

\* C14: in a session on one thread where every run completes after appending
\* one assistant reply and the service lists the thread oldest first, the message
\* run_assistant returns for the k-th question is the reply of the k-th run.
C14_ReplyOfCurrentQuestion ==
    \A p \in Procs :
        (/\ prog[p] \in QnaPrograms
         /\ listOrder = "asc"
         /\ pc[p] = "print"
         /\ ListedOk(p)
         /\ OneReplyPerQuestion(p)) =>
            (result[p].role = "assistant" /\ result[p].q = qn[p])

====
